---- MODULE Spec2Model ----
(***************************************************************************)
(* WhatsApp chat analyser: the transcript parser (parse_chat), the         *)
(* DataFrame cleaning pipeline (process_dataframe), the loader             *)
(* (load_and_process_data) and the analyser (WhatsAppAnalyzer).            *)
(*                                                                         *)
(* Text is modelled as TLA+ strings, one character per position.  Three    *)
(* non-ASCII characters of the source are written with ASCII stand-ins:    *)
(*   LRM   U+200E LEFT-TO-RIGHT MARK   "{"                                 *)
(*   RLM   U+200F RIGHT-TO-LEFT MARK   "}"                                 *)
(*   NNBSP U+202F NARROW NO-BREAK SPACE "_"                                *)
(* None of the stand-ins occurs with its ASCII meaning in any input.       *)
(***************************************************************************)
EXTENDS Integers, Sequences, FiniteSets, TLC

VARIABLES copy, lines, pc, idx, data, current_message, df, ret, user, hourly,
          metrics, active

vars == <<copy, lines, pc, idx, data, current_message, df, ret, user, hourly,
          metrics, active>>

(***************************************************************************)
(* Characters and strings                                                  *)
(***************************************************************************)
LRM == "{"
RLM == "}"
NNBSP == "_"
NL == "\n"

\* str.isspace(): the characters str.strip() removes and the whitespace class
\* of a pattern matches
WS == {" ", "\t", NL, NNBSP}

\* the slice s[i-1:j] of Python: positions i..j of s, cut at the ends of s
Sub(s, i, j) ==
    IF i < 1 \/ i > j \/ i > Len(s) THEN ""
    ELSE SubSeq(s, i, IF j > Len(s) THEN Len(s) ELSE j)

Ch(s, i) == Sub(s, i, i)

DigitChars == {"0", "1", "2", "3", "4", "5", "6", "7", "8", "9"}

IsDigit(c) == c \in DigitChars

DigitVal(c) ==
    CASE c = "0" -> 0 [] c = "1" -> 1 [] c = "2" -> 2 [] c = "3" -> 3 [] c = "4" -> 4
      [] c = "5" -> 5 [] c = "6" -> 6 [] c = "7" -> 7 [] c = "8" -> 8 [] c = "9" -> 9

\* int() of a run of one or two digits
IntOf(s) ==
    IF Len(s) = 1 THEN DigitVal(Ch(s, 1))
    ELSE 10 * DigitVal(Ch(s, 1)) + DigitVal(Ch(s, 2))

AllDigits(s) == \A k \in 1..Len(s) : IsDigit(Ch(s, k))

LowerChar(c) ==
    CASE c = "A" -> "a" [] c = "B" -> "b" [] c = "C" -> "c" [] c = "D" -> "d"
      [] c = "E" -> "e" [] c = "F" -> "f" [] c = "G" -> "g" [] c = "H" -> "h"
      [] c = "I" -> "i" [] c = "J" -> "j" [] c = "K" -> "k" [] c = "L" -> "l"
      [] c = "M" -> "m" [] c = "N" -> "n" [] c = "O" -> "o" [] c = "P" -> "p"
      [] c = "Q" -> "q" [] c = "R" -> "r" [] c = "S" -> "s" [] c = "T" -> "t"
      [] c = "U" -> "u" [] c = "V" -> "v" [] c = "W" -> "w" [] c = "X" -> "x"
      [] c = "Y" -> "y" [] c = "Z" -> "z" [] OTHER -> c

RECURSIVE Lower(_)
Lower(s) == IF s = "" THEN "" ELSE LowerChar(Ch(s, 1)) \o Lower(Tail(s))

RECURSIVE LStrip(_)
LStrip(s) == IF s # "" /\ Ch(s, 1) \in WS THEN LStrip(Tail(s)) ELSE s

RECURSIVE RStrip(_)
RStrip(s) ==
    IF s # "" /\ Ch(s, Len(s)) \in WS THEN RStrip(Sub(s, 1, Len(s) - 1)) ELSE s

\* str.strip()
Strip(s) == RStrip(LStrip(s))

\* the position of the first character at or after p that is not whitespace
RECURSIVE SkipWs(_, _)
SkipWs(s, p) == IF p <= Len(s) /\ Ch(s, p) \in WS THEN SkipWs(s, p + 1) ELSE p

\* the position of the first c at or after p, or 0
RECURSIVE Find(_, _, _)
Find(s, c, p) ==
    IF p > Len(s) THEN 0 ELSE IF Ch(s, p) = c THEN p ELSE Find(s, c, p + 1)

(***************************************************************************)
(* WA_MESSAGE_START_PATTERN.match(line), with re.IGNORECASE.  The pattern, *)
(* piece by piece: start of line, "[", the date (two digits, "/", two      *)
(* digits, "/", two digits) as group 1, ",", any whitespace, the time (one *)
(* or two digits, ":", two digits, ":", two digits) as group 2, any        *)
(* whitespace, an optional NNBSP as group 3, an optional AM or PM as group *)
(* 4, any whitespace, "]", any whitespace, one or more characters other    *)
(* than ":" as group 5, ":", any whitespace, the rest as group 6.          *)
(* Group 3 is always empty: the whitespace run before it is greedy and     *)
(* NNBSP is whitespace, and giving it back never helps the rest to match.  *)
(* The result is [ok, g1, .., g6]: whether the line matches, and the       *)
(* groups.                                                                 *)
(***************************************************************************)
NoMatch == [ok |-> FALSE, g1 |-> "", g2 |-> "", g3 |-> "", g4 |-> "", g5 |-> "", g6 |-> ""]

\* the date of group 1 at positions p..p+7
DateAt(s, p) ==
    /\ AllDigits(Sub(s, p, p + 1)) /\ Len(Sub(s, p, p + 1)) = 2
    /\ Ch(s, p + 2) = "/"
    /\ AllDigits(Sub(s, p + 3, p + 4)) /\ Len(Sub(s, p + 3, p + 4)) = 2
    /\ Ch(s, p + 5) = "/"
    /\ AllDigits(Sub(s, p + 6, p + 7)) /\ Len(Sub(s, p + 6, p + 7)) = 2

\* ":", two digits, ":", two digits at positions p..p+5
MinSecAt(s, p) ==
    /\ Ch(s, p) = ":"
    /\ AllDigits(Sub(s, p + 1, p + 2)) /\ Len(Sub(s, p + 1, p + 2)) = 2
    /\ Ch(s, p + 3) = ":"
    /\ AllDigits(Sub(s, p + 4, p + 5)) /\ Len(Sub(s, p + 4, p + 5)) = 2

\* the number of hour digits (two tried first) at p so that the rest of the
\* time follows, or 0
HourLen(s, p) ==
    IF IsDigit(Ch(s, p)) /\ IsDigit(Ch(s, p + 1)) /\ MinSecAt(s, p + 2) THEN 2
    ELSE IF IsDigit(Ch(s, p)) /\ MinSecAt(s, p + 1) THEN 1
    ELSE 0

\* whitespace, group 5, ":", whitespace, group 6, from position q, the
\* position after "]".  The colon matched is the first one; the whitespace
\* run gives back its last character to group 5 when nothing but whitespace
\* stands before the colon.
SenderAndBody(s, q) ==
    LET c == Find(s, ":", q)
        w == SkipWs(s, q)
    IN  IF c = 0 \/ c = q THEN NoMatch
        ELSE [ok |-> TRUE, g1 |-> "", g2 |-> "", g3 |-> "", g4 |-> "",
              g5 |-> IF w < c THEN Sub(s, w, c - 1) ELSE Ch(s, c - 1),
              g6 |-> Sub(s, SkipWs(s, c + 1), Len(s))]

Match(line) ==
    IF ~(Ch(line, 1) = "[" /\ DateAt(line, 2) /\ Ch(line, 10) = ",") THEN NoMatch
    ELSE
      LET p == SkipWs(line, 11)
          h == HourLen(line, p)
      IN  IF h = 0 THEN NoMatch
          ELSE
            LET e == p + h + 6
                a == SkipWs(line, e)
                m == IF Lower(Sub(line, a, a + 1)) \in {"am", "pm"}
                     THEN Sub(line, a, a + 1) ELSE ""
                b == SkipWs(line, a + Len(m))
            IN  IF Ch(line, b) # "]" THEN NoMatch
                ELSE
                  LET r == SenderAndBody(line, b + 1)
                  IN  IF ~r.ok THEN NoMatch
                      ELSE [r EXCEPT !.g1 = Sub(line, 2, 9),
                                     !.g2 = Sub(line, p, e - 1),
                                     !.g4 = m]

IsHeader(line) == Match(line).ok

(***************************************************************************)
(* pd.to_datetime(column, format=fmt, errors='coerce')                     *)
(***************************************************************************)
Fmt12 == "%d/%m/%y %I:%M:%S%p"
Fmt24 == "%d/%m/%y %H:%M:%S"

NaT == [nat |-> TRUE, year |-> 0, month |-> 0, day |-> 0, hour |-> 0, minute |-> 0,
        second |-> 0]

IsLeap(y) == y % 4 = 0 /\ (y % 100 # 0 \/ y % 400 = 0)

DaysIn(m, y) ==
    IF m = 2 THEN (IF IsLeap(y) THEN 29 ELSE 28)
    ELSE IF m \in {4, 6, 9, 11} THEN 30 ELSE 31

\* %y: a two-digit year up to 68 is of this century, above it of the last one
PivotYear(yy) == IF yy <= 68 THEN 2000 + yy ELSE 1900 + yy

\* %I with %p: 12 AM is hour 0, 12 PM stays 12, other PM hours gain 12
Hour12(h, p) ==
    IF p = "am" THEN (IF h = 12 THEN 0 ELSE h)
    ELSE (IF h = 12 THEN 12 ELSE h + 12)

\* One string under one format.  The string is a DateTimeStr of parse_chat:
\* two-digit day, month and year tokens, one space, the time of group 2 and
\* the meridiem of group 4.  A directive accepts its token when the token's
\* number is in the directive's range: %d 1..31, %m 1..12, %y any, %I 1..12,
\* %H 0..23, %M 0..59, %S 0..61, %p am or pm in any case; the whole string
\* must be used up, and the day must exist in its month.  (Seconds of 60 and
\* 61 pass %S; no input of this model carries them.)
ToDatetime(s, fmt) ==
    IF ~(DateAt(s, 1) /\ Ch(s, 9) = " ") THEN NaT
    ELSE
      LET hl == HourLen(s, 10)
          d  == IntOf(Sub(s, 1, 2))
          m  == IntOf(Sub(s, 4, 5))
          y  == PivotYear(IntOf(Sub(s, 7, 8)))
      IN  IF hl = 0 THEN NaT
          ELSE
            LET h  == IntOf(Sub(s, 10, 9 + hl))
                mi == IntOf(Sub(s, 11 + hl, 12 + hl))
                se == IntOf(Sub(s, 14 + hl, 15 + hl))
                p  == Lower(Sub(s, 16 + hl, Len(s)))
                dateOk == d \in 1..31 /\ m \in 1..12 /\ d <= DaysIn(m, y)
                minSecOk == mi \in 0..59 /\ se \in 0..61
            IN  IF fmt = Fmt12
                THEN IF dateOk /\ minSecOk /\ h \in 1..12 /\ p \in {"am", "pm"}
                     THEN [nat |-> FALSE, year |-> y, month |-> m, day |-> d,
                           hour |-> Hour12(h, p), minute |-> mi, second |-> se]
                     ELSE NaT
                ELSE IF dateOk /\ minSecOk /\ h \in 0..23 /\ p = ""
                     THEN [nat |-> FALSE, year |-> y, month |-> m, day |-> d,
                           hour |-> h, minute |-> mi, second |-> se]
                     ELSE NaT

\* whether the conversion of a column raises ValueError: with errors='raise'
\* it does on the first string the format rejects, with errors='coerce' the
\* string becomes NaT and nothing is raised
ToDatetimeRaises(rows, fmt, errors) ==
    errors = "raise" /\ \E k \in 1..Len(rows) : ToDatetime(rows[k].DateTimeStr, fmt) = NaT

\* the try / except ValueError of process_dataframe
DateTimeColumn(rows) ==
    IF ToDatetimeRaises(rows, Fmt12, "coerce")
    THEN [k \in 1..Len(rows) |-> ToDatetime(rows[k].DateTimeStr, Fmt24)]
    ELSE [k \in 1..Len(rows) |-> ToDatetime(rows[k].DateTimeStr, Fmt12)]

month_name(m) ==
    <<"January", "February", "March", "April", "May", "June", "July", "August",
      "September", "October", "November", "December">>[m]

(***************************************************************************)
(* process_dataframe: cleaning of the body                                 *)
(***************************************************************************)
RECURSIVE RemoveAll(_, _)
RemoveAll(s, c) ==
    IF s = "" THEN ""
    ELSE IF Ch(s, 1) = c THEN RemoveAll(Tail(s), c)
    ELSE Ch(s, 1) \o RemoveAll(Tail(s), c)

\* str.replace of the pattern "LRM at the start of the string, or RLM", by
\* the empty string: every match is replaced
RemoveMarks(s) ==
    IF Ch(s, 1) = LRM THEN RemoveAll(Tail(s), RLM) ELSE RemoveAll(s, RLM)

CleanMessage(s) == Strip(RemoveMarks(s))

(***************************************************************************)
(* process_dataframe: the system-message filter.  The phrases are joined   *)
(* by "|" into one pattern and searched with case=False; the only pattern  *)
(* character with a special meaning in them is ".", any character but a    *)
(* newline.                                                                *)
(***************************************************************************)
SystemMessagesModule ==
    <<"Messages and calls are end-to-end encrypted.", "image omitted",
      "document omitted", "sticker omitted", "This message was deleted.",
      "GIF omitted", "audio omitted", "video omitted",
      "You joined using this group's invite link">>

SystemMessagesApp ==
    SystemMessagesModule \o
    <<"changed the group name", "changed this group's icon",
      "changed the group settings", "created this group",
      "left", "added", "removed", "joined">>

system_messages(c) == IF c = "app" THEN SystemMessagesApp ELSE SystemMessagesModule

\* both arguments in lower case
MatchAt(s, pat, i) ==
    \A k \in 1..Len(pat) :
        IF Ch(pat, k) = "." THEN Ch(s, i + k - 1) \notin {"", NL}
        ELSE Ch(s, i + k - 1) = Ch(pat, k)

LowerLetters ==
    {"a", "b", "c", "d", "e", "f", "g", "h", "i", "j", "k", "l", "m",
     "n", "o", "p", "q", "r", "s", "t", "u", "v", "w", "x", "y", "z"}

\* a character of a word: a letter or a digit
IsWordChar(c) == LowerChar(c) \in LowerLetters \/ IsDigit(c)

\* the pattern occurs with no word character before or after it
SearchWord(s, pat) ==
    \E i \in 1..(Len(s) - Len(pat) + 1) :
        /\ MatchAt(s, pat, i)
        /\ ~IsWordChar(Ch(s, i - 1))
        /\ ~IsWordChar(Ch(s, i + Len(pat)))

Search(s, pat) == \E i \in 1..(Len(s) - Len(pat) + 1) : MatchAt(s, pat, i)

\* str.contains('|'.join(phrases), case=False)
Contains(s, phrases) ==
    LET low == Lower(s)
    IN  \E k \in 1..Len(phrases) : Search(low, Lower(phrases[k]))

(***************************************************************************)
(* process_dataframe                                                       *)
(***************************************************************************)
\* step 1: the marks and the surrounding whitespace go, rows with an empty
\* body go
CleanRows(rows) ==
    SelectSeq([k \in 1..Len(rows) |-> [rows[k] EXCEPT !.Message = CleanMessage(@)]],
              LAMBDA r : r.Message # "")

\* step 2: the DateTime column, dropna, and the derived columns; step 3: the
\* columns renamed
WithDateTime(rows) ==
    LET col == DateTimeColumn(rows)
        kept == SelectSeq([k \in 1..Len(rows) |-> [row |-> rows[k], DateTime |-> col[k]]],
                          LAMBDA r : ~r.DateTime.nat)
    IN  [k \in 1..Len(kept) |->
           [day |-> kept[k].DateTime.day,
            month |-> month_name(kept[k].DateTime.month),
            year |-> kept[k].DateTime.year,
            hour |-> kept[k].DateTime.hour,
            minute |-> kept[k].DateTime.minute,
            sender |-> kept[k].row.Sender,
            message |-> kept[k].row.Message,
            DateTime |-> kept[k].DateTime,
            line |-> kept[k].row.line]]

\* step 4: rows with a system message go
FilterSystem(rows, c) ==
    SelectSeq(rows, LAMBDA r : ~Contains(r.message, system_messages(c)))

process_dataframe(rows, c) ==
    IF rows = <<>> THEN <<>>
    ELSE FilterSystem(WithDateTime(CleanRows(rows)), c)

(***************************************************************************)
(* WhatsAppAnalyzer                                                        *)
(***************************************************************************)
\* WhatsAppAnalyzer.__init__: the rows of the scope
Scoped(rows, u) ==
    IF u = "Overall" THEN rows ELSE SelectSeq(rows, LAMBDA r : r.sender = u)

RECURSIVE SortedSeq(_)
SortedSeq(S) ==
    IF S = {} THEN <<>>
    ELSE LET m == CHOOSE x \in S : \A y \in S : x <= y
         IN  <<m>> \o SortedSeq(S \ {m})

HourCount(rows, h) == Cardinality({k \in 1..Len(rows) : rows[k].hour = h})

RECURSIVE ByCount(_, _)
ByCount(S, rows) ==
    IF S = {} THEN <<>>
    ELSE LET m == CHOOSE x \in S :
                    \A y \in S : \/ HourCount(rows, x) > HourCount(rows, y)
                                 \/ HourCount(rows, x) = HourCount(rows, y) /\ x <= y
         IN  <<m>> \o ByCount(S \ {m}, rows)

\* Hourly in the order of value_counts(), the largest count first
HourlyByCount(rows) ==
    LET hs == ByCount({rows[k].hour : k \in 1..Len(rows)}, rows)
    IN  [j \in 1..Len(hs) |-> [Hour |-> hs[j], Count |-> HourCount(rows, hs[j])]]

\* get_timeline_data()['Hourly']: value_counts() of the hour column, sorted
\* by hour
Hourly(rows) ==
    LET hs == SortedSeq({rows[k].hour : k \in 1..Len(rows)})
    IN  [j \in 1..Len(hs) |->
           [Hour |-> hs[j], Count |-> HourCount(rows, hs[j])]]

\* get_base_metrics(): the number of rows of the scope.  (The word and link
\* counts of the result are not modelled.)
get_base_metrics(rows) == [TotalMessages |-> Len(rows)]

SenderCount(rows, s) == Cardinality({k \in 1..Len(rows) : rows[k].sender = s})

\* value_counts() of the sender column: the senders in descending order of
\* their counts.  The order among senders of the same count is not fixed, so
\* this is the set of the orders value_counts() may give.
RECURSIVE value_counts(_, _)
value_counts(S, rows) ==
    IF S = {} THEN {<<>>}
    ELSE LET top == {x \in S : \A y \in S : SenderCount(rows, x) >= SenderCount(rows, y)}
         IN  UNION {{<<m>> \o t : t \in value_counts(S \ {m}, rows)} : m \in top}

\* the number of rows head() keeps
TopSenders == 5

\* the table without head(): a row for every sender
ActiveTableWhole(order, rows) ==
    [j \in 1..Len(order) |->
        [Sender |-> order[j],
         MessageCount |-> SenderCount(rows, order[j]),
         Contribution |-> [num |-> SenderCount(rows, order[j]) * 100, den |-> Len(rows)]]]

\* the table of one order of the counts: its first TopSenders rows, each
\* with the sender, its count and its contribution count / total * 100,
\* kept as the fraction num / den
ActiveTable(order, rows) ==
    [j \in 1..(IF Len(order) < TopSenders THEN Len(order) ELSE TopSenders) |->
        [Sender |-> order[j],
         MessageCount |-> SenderCount(rows, order[j]),
         Contribution |-> [num |-> SenderCount(rows, order[j]) * 100, den |-> Len(rows)]]]

\* get_active_senders_and_contribution(): the tables it may return
get_active_senders_and_contribution(rows, u) ==
    IF u # "Overall" THEN {<<>>}
    ELSE {ActiveTable(order, rows) :
             order \in value_counts({rows[k].sender : k \in 1..Len(rows)}, rows)}

(***************************************************************************)
(* The inputs                                                              *)
(***************************************************************************)
MaxLines == 3

Copies == {"module", "app"}

\* the lines of a transcript: headers with a 12-hour stamp, a 24-hour stamp,
\* a date that does not exist, a blank sender, a media notice, a deletion
\* notice and an empty body; and lines that are no header
CoreLines ==
    {"[01/01/23, 9:05:00 PM] Alice: Hello",
     "[02/01/23, 21:05:00] Bob: Hi",
     "[31/02/23, 9:05:00 PM] Carol: Hey",
     "[01/01/23, 11:06:00_am] : ghost",
     "[03/01/23, 12:07:00 AM] Alice: {image omitted",
     "[03/01/23, 9:08:00 PM] Bob: You deleted this message",
     "[04/01/23, 9:09:00 PM] Alice:",
     "  more text  ",
     "[01/01/23, 9:05:00 XM] Eve: no",
     ""}

SeqsUpTo(S, n) == UNION {[1..k -> S] : k \in 0..n}

(***************************************************************************)
(* The program                                                             *)
(*   pc = "parse"      in the loop of parse_chat, before line idx          *)
(*   pc = "parsed"     parse_chat has returned, df is the raw DataFrame    *)
(*   pc = "processed"  process_dataframe has returned df                   *)
(*   pc = "loaded"     load_and_process_data has returned ret              *)
(*   pc = "done"       main has returned                                   *)
(* current_message is <<>> for the empty dict and <<m>> for a message m.   *)
(* A message carries the number of its header line in the field line.      *)
(***************************************************************************)
Start(ls) ==
    /\ copy \in Copies
    /\ lines = ls
    /\ pc = "parse"
    /\ idx = 1
    /\ data = <<>>
    /\ current_message = <<>>
    /\ df = <<>>
    /\ ret = "pending"
    /\ user = ""
    /\ hourly = <<>>
    /\ metrics = <<>>
    /\ active = <<>>

Init == \E ls \in SeqsUpTo(CoreLines, MaxLines) : Start(ls)

\* the message a header line opens
NewMessage(line, n) ==
    LET match == Match(line)
        date_part == match.g1
        time_ampm_part == IF match.g4 # "" THEN match.g3 \o Strip(match.g4) ELSE ""
        time_part == match.g2 \o time_ampm_part
    IN  [DateTimeStr |-> date_part \o " " \o time_part,
         Sender |-> Strip(match.g5),
         Message |-> Strip(match.g6),
         line |-> n]

\* Continued with the line appended as it stands
ContinuedUntrimmed(body, line) == body \o NL \o line

\* the body of the open message after a line that is no header
Continued(body, line) == body \o NL \o Strip(line)

\* Stored with the message put at the front of the list
StoredFirst(d, cur) == IF cur # <<>> THEN <<cur[1]>> \o d ELSE d

\* the list after the open message, if any, is stored
Stored(d, cur) == IF cur # <<>> THEN Append(d, cur[1]) ELSE d

\* parse_chat, the loop at a header line
ParseHeader ==
    /\ pc = "parse" /\ idx <= Len(lines)
    /\ IsHeader(lines[idx])
    /\ data' = Stored(data, current_message)
    /\ current_message' = <<NewMessage(lines[idx], idx)>>
    /\ idx' = idx + 1
    /\ UNCHANGED <<copy, lines, pc, df, ret, user, hourly, metrics, active>>

\* ParseContinuation with the line added to the message stored last as well,
\* as when the stored message and the open one are the same object
ParseContinuationAliased ==
    /\ pc = "parse" /\ idx <= Len(lines)
    /\ ~IsHeader(lines[idx])
    /\ current_message' =
          IF current_message # <<>>
          THEN <<[current_message[1] EXCEPT !.Message = Continued(@, lines[idx])]>>
          ELSE current_message
    /\ data' =
          IF data # <<>>
          THEN [data EXCEPT ![Len(data)].Message = Continued(@, lines[idx])]
          ELSE data
    /\ idx' = idx + 1
    /\ UNCHANGED <<copy, lines, pc, df, ret, user, hourly, metrics, active>>

\* parse_chat, the loop at any other line
ParseContinuation ==
    /\ pc = "parse" /\ idx <= Len(lines)
    /\ ~IsHeader(lines[idx])
    /\ current_message' =
          IF current_message # <<>>
          THEN <<[current_message[1] EXCEPT !.Message = Continued(@, lines[idx])]>>
          ELSE current_message
    /\ idx' = idx + 1
    /\ UNCHANGED <<copy, lines, pc, data, df, ret, user, hourly, metrics, active>>

\* ParseEnd with the open message left out of the list
ParseEndWithoutFlush ==
    /\ pc = "parse" /\ idx > Len(lines)
    /\ data' = data
    /\ df' = data'
    /\ pc' = "parsed"
    /\ UNCHANGED <<copy, lines, idx, current_message, ret, user, hourly, metrics, active>>

\* parse_chat after the loop
ParseEnd ==
    /\ pc = "parse" /\ idx > Len(lines)
    /\ data' = Stored(data, current_message)
    /\ df' = data'
    /\ pc' = "parsed"
    /\ UNCHANGED <<copy, lines, idx, current_message, ret, user, hourly, metrics, active>>

ProcessDataframe ==
    /\ pc = "parsed"
    /\ df' = process_dataframe(df, copy)
    /\ pc' = "processed"
    /\ UNCHANGED <<copy, lines, idx, data, current_message, ret, user, hourly, metrics, active>>

\* Loaded with the frame returned whether it is empty or not
LoadedUnchecked(frame) == "DataFrame"

\* what load_and_process_data returns for the processed frame
Loaded(frame) == IF frame # <<>> THEN "DataFrame" ELSE "None"

LoadReturn ==
    /\ pc = "processed"
    /\ ret' = Loaded(df)
    /\ pc' = "loaded"
    /\ UNCHANGED <<copy, lines, idx, data, current_message, df, user, hourly, metrics, active>>

\* main: nothing is analysed without data
MainNoData ==
    /\ pc = "loaded" /\ ret = "None"
    /\ pc' = "done"
    /\ UNCHANGED <<copy, lines, idx, data, current_message, df, ret, user, hourly, metrics, active>>

\* main: the user is picked from 'Overall' and the senders, and
\* display_analysis_results builds the analyser and its timeline
\* The table of the active senders is computed for every scope, as a caller
\* of the method gets it; the page shows it for the scope "Overall" only.
Analyze ==
    /\ pc = "loaded" /\ ret = "DataFrame"
    /\ \E u \in {"Overall"} \cup {df[k].sender : k \in 1..Len(df)} :
          /\ user' = u
          /\ hourly' = Hourly(Scoped(df, u))
          /\ metrics' = get_base_metrics(Scoped(df, u))
          /\ active' \in get_active_senders_and_contribution(Scoped(df, u), u)
    /\ pc' = "done"
    /\ UNCHANGED <<copy, lines, idx, data, current_message, df, ret>>

Next ==
    \/ ParseHeader
    \/ ParseContinuation
    \/ ParseEnd
    \/ ProcessDataframe
    \/ LoadReturn
    \/ MainNoData
    \/ Analyze

Spec == Init /\ [][Next]_vars

(***************************************************************************)
(* A second set of inputs: one header line with every combination of the   *)
(* stamp's tokens, followed or not by a line that is no header.            *)
(***************************************************************************)
StampDays == {"00", "29", "31"}
StampMonths == {"01", "02", "13"}
StampYears == {"00", "24", "68", "69", "99"}
StampHours == {"0", "9", "09", "12", "13", "23", "24"}
StampMinutes == {"05", "60"}
StampSeconds == {"00", "75"}
StampMeridiems == {"", " AM", " PM", "_pm"}

StampLine(d, m, y, h, mi, se, p) ==
    "[" \o d \o "/" \o m \o "/" \o y \o ", " \o h \o ":" \o mi \o ":" \o se \o p
        \o "] Alice: Hello"

InitStamp ==
    \E d \in StampDays, m \in StampMonths, y \in StampYears, h \in StampHours,
       mi \in StampMinutes, se \in StampSeconds, p \in StampMeridiems,
       tail \in SeqsUpTo({"  more text  "}, 1) :
          Start(<<StampLine(d, m, y, h, mi, se, p)>> \o tail)

SpecStamp == InitStamp /\ [][Next]_vars

(***************************************************************************)
(* A third set of inputs: a transcript of up to MaxPerSender messages of   *)
(* each of six senders, one of them named like the scope of the whole      *)
(* group, followed by a line that is no header.                            *)
(***************************************************************************)
MaxPerSender == 2
SenderNames == <<"Alice", "Bob", "Carol", "Dave", "Eve", "Overall">>

SenderLine(s) == "[01/01/23, 9:05:00 PM] " \o s \o ": Hello"

Repeat(x, n) == [j \in 1..n |-> x]

RECURSIVE SenderLines(_, _)
SenderLines(count, j) ==
    IF j > Len(SenderNames) THEN <<>>
    ELSE Repeat(SenderLine(SenderNames[j]), count[j]) \o SenderLines(count, j + 1)

InitSenders ==
    \E count \in [1..Len(SenderNames) -> 0..MaxPerSender] :
        /\ Start(SenderLines(count, 1) \o <<"  more text  ">>)
        /\ copy = "app"

SpecSenders == InitSenders /\ [][Next]_vars

(***************************************************************************)
(* A fourth set of inputs: one header line with a body that holds a        *)
(* membership keyword, alone or inside a longer word, or the marks at      *)
(* several places, followed or not by a line that is no header.            *)
(***************************************************************************)
Bodies ==
    {"Hello", "left", "He left early", "leftover pizza", "Bob LEFT",
     "adjoined us", "removed.", "You joined", "Alice added Bob", "image omitted",
     "a}b", "}ab", "{ab", "a{b", "{{a", "{}a", "}{a", "}", "{ left", ""}

BodyTails == {"  more text  ", "}left"}

BodyLine(b) == "[01/01/23, 9:05:00 PM] Alice: " \o b

InitBody ==
    \E b \in Bodies, tail \in SeqsUpTo(BodyTails, 1) :
        Start(<<BodyLine(b)>> \o tail)

SpecBody == InitBody /\ [][Next]_vars

(***************************************************************************)
(* The claims                                                              *)
(***************************************************************************)
HeaderLines == {k \in 1..Len(lines) : IsHeader(lines[k])}

Rows(frame) == {frame[k] : k \in 1..Len(frame)}

\* the body of a raw message survives the cleaning and the system filter
PassesContent(m) ==
    /\ CleanMessage(m.Message) # ""
    /\ ~Contains(CleanMessage(m.Message), system_messages(copy))

\* C1: once parse_chat has finished, the list holds as many messages as there
\* are header lines, one for each header line, the last one included.
C1_EveryHeaderEmittedOnce ==
    pc = "parsed" =>
        /\ Len(data) = Cardinality(HeaderLines)
        /\ \A h \in HeaderLines :
              Cardinality({k \in 1..Len(data) : data[k].line = h}) = 1

\* parse_chat has finished on an input of two headers that ends with a header
C1_Witness ==
    /\ pc = "parsed"
    /\ Len(lines) = MaxLines
    /\ Cardinality(HeaderLines) = 2
    /\ IsHeader(lines[Len(lines)])
    /\ Len(data) = 2

\* C2: every raw message whose stamp is a valid 24-hour stamp without
\* meridiem (and whose body passes the content filters) is in the frame
\* process_dataframe returns, with its hour.
C2_TwentyFourHourRetained ==
    pc = "processed" =>
        \A k \in 1..Len(data) :
            LET t == ToDatetime(data[k].DateTimeStr, Fmt24)
            IN  (~t.nat /\ PassesContent(data[k])) =>
                    \E r \in Rows(df) : r.line = data[k].line /\ r.hour = t.hour

Parseable(m) ==
    \/ ~ToDatetime(m.DateTimeStr, Fmt12).nat
    \/ ~ToDatetime(m.DateTimeStr, Fmt24).nat

\* C4: when a raw message has a stamp neither format parses, no returned
\* record has a null timestamp and every raw message with a parseable stamp
\* (whose body passes the content filters) is still returned.
C4_OthersStillReturned ==
    (pc = "processed" /\ \E k \in 1..Len(data) : ~Parseable(data[k])) =>
        /\ \A r \in Rows(df) : ~r.DateTime.nat
        /\ \A k \in 1..Len(data) :
              (Parseable(data[k]) /\ PassesContent(data[k])) =>
                  \E r \in Rows(df) : r.line = data[k].line

\* a raw message is removed by the empty-body, timestamp or notice filter
Removed(m) ==
    \/ ~PassesContent(m)
    \/ ToDatetime(m.DateTimeStr, Fmt12).nat

\* C5: an input without header lines, or one whose every message is removed
\* by the filters, gives an empty frame and the result None.
C5_NoDataIsNone ==
    (pc = "loaded"
       /\ (HeaderLines = {} \/ \A k \in 1..Len(data) : Removed(data[k]))) =>
        df = <<>> /\ ret = "None"

\* the loader has returned for an input whose messages were all removed
C5_Witness ==
    /\ pc = "loaded"
    /\ Len(data) >= 2
    /\ \A k \in 1..Len(data) : Removed(data[k])
    /\ ret = "None"

\* s contains p as a substring, whatever the case of the letters
HasSubstring(s, p) ==
    \E i \in 1..(Len(s) - Len(p) + 1) : Lower(Sub(s, i, i + Len(p) - 1)) = Lower(p)

\* the notice phrases a clean record must not contain
NoticePhrases ==
    {"Messages and calls are end-to-end encrypted.", "image omitted",
     "document omitted", "sticker omitted", "deleted this message",
     "This message was deleted.", "GIF omitted", "audio omitted", "video omitted",
     "You joined using this group's invite link", "changed the group name",
     "changed this group's icon", "changed the group settings",
     "created this group"}

\* C6: every record process_dataframe returns has a body that is not empty
\* and contains none of the notice phrases.
C6_ReturnedRecordsClean ==
    pc = "processed" =>
        \A r \in Rows(df) :
            /\ r.message # ""
            /\ \A p \in NoticePhrases : ~HasSubstring(r.message, p)

\* C7: no message of parse_chat has an empty sender: a line of header shape
\* with a blank sender opens no message.
C7_NoEmptySender ==
    /\ \A k \in 1..Len(data) : data[k].Sender # ""
    /\ current_message # <<>> => current_message[1].Sender # ""

\* C8: the messages of parse_chat stand in the order of their header lines,
\* and the records process_dataframe returns are some of them, in that order.
C8_OrderPreserved ==
    /\ \A k \in 1..(Len(data) - 1) : data[k].line < data[k + 1].line
    /\ \A k \in 1..(Len(df) - 1) : df[k].line < df[k + 1].line
    /\ \A r \in Rows(df) : \E m \in Rows(data) : m.line = r.line

\* process_dataframe has returned the first and the last of three messages
C8_Witness ==
    /\ pc = "processed"
    /\ Len(data) = 3 /\ Len(df) = 2
    /\ df[1].line = data[1].line /\ df[2].line = data[3].line

\* C9: every returned record has year 2000 + YY for the year token YY of its
\* header line, an hour in 0..23, 0 for 12 AM and 12 for 12 PM, and a minute
\* in 0..59.
C9_DerivedFields ==
    pc = "processed" =>
        \A r \in Rows(df) :
            LET g == Match(lines[r.line])
                h == IntOf(Sub(g.g2, 1, Len(g.g2) - 6))
            IN  /\ r.year = 2000 + IntOf(Sub(g.g1, 7, 8))
                /\ r.hour \in 0..23
                /\ r.minute \in 0..59
                /\ (h = 12 /\ Lower(g.g4) = "am") => r.hour = 0
                /\ (h = 12 /\ Lower(g.g4) = "pm") => r.hour = 12

\* C10: the hourly histogram has 24 buckets, one for each hour from 0 to 23
\* in this order, each with the number of records of the scope in that hour.
C10_TwentyFourBuckets ==
    pc = "done" /\ ret = "DataFrame" =>
        /\ Len(hourly) = 24
        /\ \A h \in 0..23 :
              /\ hourly[h + 1].Hour = h
              /\ hourly[h + 1].Count = HourCount(Scoped(df, user), h)

\* C10 as amended: the hourly histogram has one bucket for each hour in which
\* a record of the scope falls and none for any other hour, in ascending
\* order of the hour, each with the number of records in that hour.
C10_BucketsOfPresentHours ==
    pc = "done" /\ ret = "DataFrame" =>
        /\ \A j, k \in 1..Len(hourly) : j < k => hourly[j].Hour < hourly[k].Hour
        /\ {hourly[j].Hour : j \in 1..Len(hourly)}
              = {r.hour : r \in Rows(Scoped(df, user))}
        /\ \A j \in 1..Len(hourly) :
              /\ hourly[j].Count >= 1
              /\ hourly[j].Count
                    = Cardinality({k \in 1..Len(df) :
                          /\ user = "Overall" \/ df[k].sender = user
                          /\ df[k].hour = hourly[j].Hour})

\* a histogram of two hours, the later one with two records
C10_Witness ==
    /\ pc = "done" /\ ret = "DataFrame"
    /\ Len(hourly) = 2
    /\ hourly[2].Count = 2

Senders(rows) == {rows[k].sender : k \in 1..Len(rows)}

Min(a, b) == IF a < b THEN a ELSE b

RECURSIVE SumNum(_)
SumNum(t) == IF t = <<>> THEN 0 ELSE t[1].Contribution.num + SumNum(Tail(t))

C12_TotalMessagesOfSender ==
    (pc = "done" /\ user \in Senders(df)) =>
        metrics.TotalMessages = SenderCount(df, user)

MembershipKeywords == {"left", "added", "removed", "joined"}

\* the raw message has a stamp of the 12-hour format and a body left after
\* the cleaning: only the notice filter can drop it
ReachesNoticeFilter(m) ==
    /\ ~ToDatetime(m.DateTimeStr, Fmt12).nat
    /\ CleanMessage(m.Message) # ""

IsRetained(m) == \E r \in Rows(df) : r.line = m.line

HasKeyword(m) ==
    \E kw \in MembershipKeywords : HasSubstring(CleanMessage(m.Message), kw)

HasKeywordAsWord(m) ==
    \E kw \in MembershipKeywords : SearchWord(Lower(CleanMessage(m.Message)), kw)

\* the phrases of the list other than the four keywords
OtherPhrases(c) ==
    SelectSeq(system_messages(c), LAMBDA p : p \notin MembershipKeywords)

WithoutLeadingMark(s) == IF Ch(s, 1) \in {LRM, RLM} THEN Tail(s) ELSE s

\* C14: the body of a returned record is the assembled body without one mark
\* at its first position and without the surrounding whitespace: a mark at
\* any other position is left in place.
C14_OnlyLeadingMarkRemoved ==
    pc = "processed" =>
        \A r \in Rows(df) :
            \E m \in Rows(data) :
                /\ m.line = r.line
                /\ r.message = Strip(WithoutLeadingMark(m.Message))

\* C15: no step changes a message that is in the list: the list only grows
\* at its end; a line that is no header changes nothing but the body of the
\* open message, a header line changes no message of the list, and at most
\* one message is open.
C15_EmittedMessagesFrozen ==
    [][/\ Len(data') >= Len(data)
       /\ \A k \in 1..Len(data) : data'[k] = data[k]
       /\ Len(current_message) <= 1 /\ Len(current_message') <= 1
       /\ (pc = "parse" /\ idx <= Len(lines) /\ ~IsHeader(lines[idx])) =>
             /\ Len(data') = Len(data)
             /\ Len(current_message') = Len(current_message)
             /\ current_message # <<>> =>
                   current_message'[1] =
                      [current_message[1] EXCEPT !.Message = current_message'[1].Message]
       /\ (pc = "parse" /\ idx <= Len(lines) /\ IsHeader(lines[idx])) =>
             /\ Len(data') = Len(data) + Len(current_message)
             /\ current_message # <<>> => data'[Len(data')] = current_message[1]
      ]_vars

\* a line that is no header has just been added to the open message while
\* the list holds a message
C15_Witness ==
    /\ pc = "parse" /\ idx > 1
    /\ ~IsHeader(lines[idx - 1])
    /\ data # <<>>
    /\ current_message # <<>>
    /\ Find(current_message[1].Message, NL, 1) > 0

====
